---- MODULE Spec2Model ----
(***************************************************************************)
(* Model of PDFix.py: the Directory Optimizer (optimize_pdfs), the         *)
(* Single-File Optimizer (optimize_pdf) and the Repair Pipeline            *)
(* (page_by_page_recovery).  Paths are sequences of one-character strings  *)
(* so that the name filter and the temp-file naming scheme are computed as *)
(* the code computes them.  Every filesystem and PDF-engine call draws its *)
(* outcome (success or failure) from the environment.                      *)
(***************************************************************************)
EXTENDS Integers, Sequences, FiniteSets, TLC

(* ------------------------------ bounds --------------------------------- *)
MaxSizeUnits == 2
MaxPages == 2

(* --------------------------- string helpers ---------------------------- *)
LowerChar(c) ==
  CASE c = "P" -> "p" [] c = "D" -> "d" [] c = "F" -> "f"
    [] OTHER -> c

Lower(s) == [i \in 1..Len(s) |-> LowerChar(s[i])]

EndsWith(s, suf) ==
  /\ Len(suf) <= Len(s)
  /\ SubSeq(s, Len(s) - Len(suf) + 1, Len(s)) = suf

Contains(s, sub) ==
  \E i \in 1..(Len(s) + 1) :
     /\ i + Len(sub) - 1 <= Len(s)
     /\ SubSeq(s, i, i + Len(sub) - 1) = sub

DotPdf == <<".", "p", "d", "f">>

TempMarker ==
  <<".", "t", "e", "m", "p", "_", "o", "p", "t", "i", "m", "i", "z", "e", "d",
    ".", "p", "d", "f">>

Join(dir, file) == dir \o <<"/">> \o file

LastSlash(p) ==
  LET S == {i \in 1..Len(p) : p[i] = "/"}
  IN IF S = {} THEN 0 ELSE CHOOSE i \in S : \A j \in S : j <= i

Basename(p) == SubSeq(p, LastSlash(p) + 1, Len(p))

Pid == <<"7">>

Now == <<"9">>

temp_filename(pdf_path) ==
  <<".", "t", "e", "m", "p", "_", "o", "p", "t", "_">> \o Basename(pdf_path)
    \o <<"_">> \o Pid \o <<"_">> \o Now \o DotPdf

(* --------------------------- the directory ----------------------------- *)
Root == <<"d">>

FileA == <<"a", ".", "P", "D", "F">>

FileTxt == <<"n", ".", "t", "x", "t">>

FileMarked == <<"x">> \o TempMarker

FileLeftover == temp_filename(Join(Root, FileA))

FileNames == {FileA, FileTxt, FileMarked, FileLeftover}

(* ------------------------------- sizes --------------------------------- *)
MB == 1024 * 1024

HalfMB == MB \div 2

Sizes == {k * HalfMB : k \in 0..MaxSizeUnits}

Thresholds == {0, 1}

\* readings of shutil.disk_usage(...).free; a file of MB bytes or more passes the
\* free-space test under neither of them
FreeSpaces == {0, MB}

(* ------------------------------- state --------------------------------- *)
VARIABLES
  opts,             \* arguments of optimize_pdfs: backup, size_threshold_mb, repair_mode
  processed_files,  \* set of paths already handled
  stats,            \* the run statistics
  pc,               \* control location
  pdf_path,         \* path of the file being processed
  file_size,        \* optimize_pdfs' local file_size
  fs,               \* on-disk state for the file being processed
  original_size,    \* optimize_pdf's local original_size
  result,           \* optimize_pdf's result dict
  docs,             \* document handles currently open
  rec,              \* locals of page_by_page_recovery
  pdf_document,     \* content the working document handle was opened from
  hist              \* history of the current file's processing and of the run

vars == <<opts, processed_files, stats, pc, pdf_path, file_size,
          fs, original_size, result, docs, rec, pdf_document, hist>>

NoPath == <<>>

FreshFs(size) ==
  [size |-> size, content |-> "orig", temp |-> FALSE, tempSize |-> 0,
   ntf |-> FALSE, staging |-> FALSE, backup |-> "none"]

NoResult ==
  [success |-> FALSE, original_size |-> 0, new_size |-> 0,
   error |-> "none", repaired |-> FALSE]

NoRec == [ret |-> "none", reconSize |-> 0, copied |-> <<>>]

InitStats ==
  [total_files |-> 0, optimized_files |-> 0, skipped_files |-> 0,
   failed_files |-> 0, repaired_files |-> 0, original_size_bytes |-> 0,
   optimized_size_bytes |-> 0, overall_reduction_percent |-> 0]

FileHist ==
  [entered |-> FALSE, escaped |-> FALSE, entryContent |-> "orig", entrySize |-> 0,
   startSize |-> 0, saveTried |-> FALSE, savedSize |-> -1, gate |-> "none",
   moved |-> FALSE, encSeen |-> FALSE, backupTried |-> FALSE,
   relisted |-> FALSE, startStats |-> InitStats]

Init ==
  /\ opts \in [backup : BOOLEAN, size_threshold_mb : Thresholds, repair_mode : BOOLEAN]
  /\ processed_files = {}
  /\ stats = InitStats
  /\ pc = "loop"
  /\ pdf_path = NoPath
  /\ file_size = 0
  /\ fs = FreshFs(0)
  /\ original_size = 0
  /\ result = NoResult
  /\ docs = {}
  /\ rec = NoRec
  /\ pdf_document = "none"
  /\ hist = [file |-> FileHist, invoked |-> <<>>, escapedAt |-> 0]


(* ---------------------- optimize_pdfs: bookkeeping --------------------- *)
SetFile(h, f) == [h EXCEPT !.file = f]

IgnoredForgetsProcessed(file, path, processed) ==
  \/ ~EndsWith(Lower(file), DotPdf)
  \/ Contains(path, TempMarker)

Ignored(file, path, processed) ==
  \/ ~EndsWith(Lower(file), DotPdf)
  \/ path \in processed
  \/ Contains(path, TempMarker)

BelowThresholdNever(size, threshold_mb) == FALSE

BelowThreshold(size, threshold_mb) ==
  /\ threshold_mb # 0
  /\ size < threshold_mb * MB

NotEnoughSpace(free, size) == free < size * 2

CountFailedForgotten(s) == s

CountFailed(s) == [s EXCEPT !.failed_files = @ + 1]

CountSkippedNoBytes(s, size) == [s EXCEPT !.skipped_files = @ + 1]

CountSkipped(s, size) ==
  [s EXCEPT !.skipped_files = @ + 1, !.optimized_size_bytes = @ + size]

CountResultRepairedAnyway(s, r) ==
  IF r.success
  THEN [s EXCEPT !.optimized_files = @ + 1,
                 !.optimized_size_bytes = @ + r.new_size,
                 !.repaired_files = IF r.repaired THEN @ + 1 ELSE @]
  ELSE [s EXCEPT !.failed_files = @ + 1,
                 !.optimized_size_bytes = @ + r.original_size,
                 !.repaired_files = IF r.repaired THEN @ + 1 ELSE @]

CountResult(s, r) ==
  IF r.success
  THEN [s EXCEPT !.optimized_files = @ + 1,
                 !.optimized_size_bytes = @ + r.new_size,
                 !.repaired_files = IF r.repaired THEN @ + 1 ELSE @]
  ELSE [s EXCEPT !.failed_files = @ + 1,
                 !.optimized_size_bytes = @ + r.original_size]

ReductionPercent(s) ==
  IF s.original_size_bytes > 0
  THEN ((s.original_size_bytes - s.optimized_size_bytes) * 100)
         \div s.original_size_bytes
  ELSE 0

(* ----------------------- optimize_pdfs: the walk ----------------------- *)
\* lines 48-49: the iteration is over and the loop advances; the locals of the
\* finished iteration are dead, its file is no longer followed
Advance ==
  /\ pc' = "loop"
  /\ pdf_path' = NoPath
  /\ file_size' = 0
  /\ fs' = FreshFs(0)
  /\ original_size' = 0
  /\ result' = NoResult
  /\ docs' = {}
  /\ rec' = NoRec
  /\ pdf_document' = "none"
  /\ hist' = SetFile(hist, FileHist)

\* lines 48-60: the walk yields a file name; the filter, processed_files.add and
\* total_files += 1.  An ignored name changes nothing.
NextEntry ==
  /\ pc = "loop"
  /\ \E file \in FileNames :
     LET path == Join(Root, file)
     IN IF Ignored(file, path, processed_files)
        THEN /\ hist' = IF path \in processed_files
                          THEN [hist EXCEPT !.file.relisted = TRUE]
                          ELSE hist
             /\ UNCHANGED <<processed_files, stats, pc, pdf_path, fs>>
        ELSE /\ processed_files' = processed_files \cup {path}
             /\ stats' = [stats EXCEPT !.total_files = @ + 1]
             /\ pdf_path' = path
             /\ pc' = "access"
             /\ \E size \in Sizes :
                  /\ fs' = FreshFs(size)
                  /\ hist' = SetFile(hist, [FileHist EXCEPT
                                             !.startSize = size,
                                             !.startStats = stats])
  /\ UNCHANGED <<opts, file_size, original_size, result, docs, rec, pdf_document>>

\* lines 64-67: os.path.exists / os.access
CheckAccess ==
  /\ pc = "access"
  /\ \E accessible \in BOOLEAN :
       IF accessible
       THEN /\ pc' = "getsize"
            /\ UNCHANGED <<stats, pdf_path, file_size, fs, original_size, result,
                           docs, rec, pdf_document, hist>>
       ELSE /\ stats' = CountFailed(stats)
            /\ Advance
  /\ UNCHANGED <<opts, processed_files>>

\* lines 70-77: os.path.getsize and original_size_bytes += file_size
GetSize ==
  /\ pc = "getsize"
  /\ \E ok \in BOOLEAN :
       IF ok
       THEN /\ file_size' = fs.size
            /\ stats' = [stats EXCEPT !.original_size_bytes = @ + fs.size]
            /\ pc' = "threshold"
            /\ UNCHANGED <<pdf_path, fs, original_size, result, docs, rec,
                           pdf_document, hist>>
       ELSE /\ stats' = CountFailed(stats)
            /\ Advance
  /\ UNCHANGED <<opts, processed_files>>

\* lines 80-84: the size threshold
Threshold ==
  /\ pc = "threshold"
  /\ IF BelowThreshold(file_size, opts.size_threshold_mb)
     THEN /\ stats' = CountSkipped(stats, file_size)
          /\ Advance
     ELSE /\ pc' = "disk"
          /\ UNCHANGED <<stats, pdf_path, file_size, fs, original_size, result,
                         docs, rec, pdf_document, hist>>
  /\ UNCHANGED <<opts, processed_files>>

\* lines 87-95: shutil.disk_usage; a failed check is only a warning
DiskSpace ==
  /\ pc = "disk"
  /\ \/ /\ pc' = "backup"          \* disk_usage raised
        /\ UNCHANGED <<stats, pdf_path, file_size, fs, original_size, result,
                       docs, rec, pdf_document, hist>>
     \/ \E free \in FreeSpaces :
          IF NotEnoughSpace(free, file_size)
          THEN /\ stats' = CountSkipped(stats, file_size)
               /\ Advance
          ELSE /\ pc' = "backup"
               /\ UNCHANGED <<stats, pdf_path, file_size, fs, original_size,
                              result, docs, rec, pdf_document, hist>>
  /\ UNCHANGED <<opts, processed_files>>

\* the backup with a failed copy ending the file's processing as a failure
BackupFailureBlocks ==
  /\ pc = "backup"
  /\ IF opts.backup
     THEN \E ok \in BOOLEAN :
            IF ok
            THEN /\ fs' = [fs EXCEPT !.backup = fs.content]
                 /\ hist' = SetFile(hist, [hist.file EXCEPT !.backupTried = TRUE])
                 /\ pc' = "opt_entry"
                 /\ UNCHANGED <<stats, pdf_path, file_size, original_size,
                                result, docs, rec, pdf_document>>
            ELSE /\ stats' = CountFailed(stats)
                 /\ Advance
     ELSE /\ pc' = "opt_entry"
          /\ UNCHANGED <<stats, pdf_path, file_size, fs, original_size,
                         result, docs, rec, pdf_document, hist>>
  /\ UNCHANGED <<opts, processed_files>>

\* lines 98-103: shutil.copy2 to '<path>.backup'; a failed copy is only a warning
Backup ==
  /\ pc = "backup"
  /\ IF opts.backup
     THEN \E ok \in BOOLEAN :
            /\ fs' = IF ok THEN [fs EXCEPT !.backup = fs.content] ELSE fs
            /\ hist' = SetFile(hist, [hist.file EXCEPT !.backupTried = TRUE])
     ELSE UNCHANGED <<fs, hist>>
  /\ pc' = "opt_entry"
  /\ UNCHANGED <<opts, processed_files, stats, pdf_path, file_size,
                 original_size, result, docs, rec, pdf_document>>

\* lines 107-125: map the result onto the statistics
Tally ==
  /\ pc = "tally"
  /\ stats' = CountResult(stats, result)
  /\ Advance
  /\ UNCHANGED <<opts, processed_files>>

\* the handler with the exception propagating instead: the run dies
HandlerAborts ==
  /\ pc = "handler"
  /\ pc' = "aborted"
  /\ UNCHANGED <<opts, processed_files, stats, pdf_path, file_size, fs,
                 original_size, result, docs, rec, pdf_document, hist>>

\* lines 126-135: the outer handler of the loop body
Handler ==
  /\ pc = "handler"
  /\ \E sized \in BOOLEAN :
       stats' = [CountFailed(stats) EXCEPT
                   !.optimized_size_bytes = IF sized THEN @ + fs.size ELSE @]
  /\ Advance
  /\ UNCHANGED <<opts, processed_files>>

\* lines 137-146: the walk is over, the statistics are finalized and returned
Finish ==
  /\ pc = "loop"
  /\ stats' = [stats EXCEPT !.overall_reduction_percent = ReductionPercent(stats)]
  /\ pc' = "done"
  /\ UNCHANGED <<opts, processed_files, pdf_path, file_size, fs,
                 original_size, result, docs, rec, pdf_document, hist>>

(* ------------------------------ optimize_pdf --------------------------- *)
NonEmptySizes == Sizes \ {0}

SizeReducedAlways(new_size, orig_size) == TRUE

SizeReducedOrEqual(new_size, orig_size) == new_size <= orig_size

SizeReduced(new_size, orig_size) == new_size < orig_size

\* lines 263-281: an exception raised inside the try block, with the disk in
\* state f: the error is recorded, the temp file is removed if it exists (a
\* failed removal is only a warning) and the result is returned
Raise(e, f) ==
  /\ result' = [result EXCEPT !.error = e]
  /\ \E removed \in (IF f.temp THEN BOOLEAN ELSE {FALSE}) :
       fs' = IF f.temp /\ removed
             THEN [f EXCEPT !.temp = FALSE, !.tempSize = 0]
             ELSE f
  /\ pc' = "tally"

\* lines 161-173: the size query (outside the try) and the initial result dict
OptEntry ==
  /\ pc = "opt_entry"
  /\ \E ok \in BOOLEAN :
       IF ok
       THEN /\ original_size' = fs.size
            /\ result' = [success |-> FALSE, original_size |-> fs.size,
                          new_size |-> fs.size, error |-> "none",
                          repaired |-> FALSE]
            /\ hist' = [hist EXCEPT !.invoked = Append(@, pdf_path),
                                    !.file.entered = TRUE,
                                    !.file.entryContent = fs.content,
                                    !.file.entrySize = fs.size]
            /\ pc' = "opt_open"
       ELSE /\ hist' = [hist EXCEPT
                          !.invoked = Append(@, pdf_path),
                          !.file.escaped = TRUE,
                          !.escapedAt = IF @ = 0 THEN Len(hist.invoked) + 1 ELSE @]
            /\ pc' = "handler"
            /\ UNCHANGED <<original_size, result>>
  /\ UNCHANGED <<opts, processed_files, stats, pdf_path, file_size,
                 fs, docs, rec, pdf_document>>

\* the open with the repair_mode test dropped: every failed open is repaired
OptOpenAlwaysRepairs ==
  /\ pc = "opt_open"
  /\ \E ok \in BOOLEAN :
       IF ok
       THEN /\ docs' = docs \cup {"main"}
            /\ pdf_document' = fs.content
            /\ pc' = "opt_enc"
            /\ UNCHANGED <<result, fs>>
       ELSE /\ result' = [result EXCEPT !.repaired = TRUE]
            /\ pc' = "rec_direct"
            /\ UNCHANGED <<fs, docs, pdf_document>>
  /\ UNCHANGED <<opts, processed_files, stats, pdf_path, file_size,
                 original_size, rec, hist>>

\* lines 176-186: fitz.open; in repair mode a failure hands over to the recovery
OptOpen ==
  /\ pc = "opt_open"
  /\ \E ok \in BOOLEAN :
       IF ok
       THEN /\ docs' = docs \cup {"main"}
            /\ pdf_document' = fs.content
            /\ pc' = "opt_enc"
            /\ UNCHANGED <<result, fs>>
       ELSE IF ~opts.repair_mode
            THEN /\ Raise("open failed", fs)
                 /\ UNCHANGED <<docs, pdf_document>>
            ELSE /\ result' = [result EXCEPT !.repaired = TRUE]
                 /\ pc' = "rec_direct"
                 /\ UNCHANGED <<fs, docs, pdf_document>>
  /\ UNCHANGED <<opts, processed_files, stats, pdf_path, file_size,
                 original_size, rec, hist>>

\* lines 191-195: an encrypted document is closed and reported; the close is
\* not guarded, so its failure reaches the handler at line 263
OptEncrypted ==
  /\ pc = "opt_enc"
  /\ \E is_encrypted \in {e \in BOOLEAN : e => pdf_document = "orig"} :
       IF is_encrypted
       THEN /\ hist' = [hist EXCEPT !.file.encSeen = TRUE]
            /\ \E closeOk \in BOOLEAN :
                 IF closeOk
                 THEN /\ docs' = docs \ {"main"}
                      /\ result' = [result EXCEPT !.error = "PDF is encrypted"]
                      /\ pc' = "tally"
                      /\ UNCHANGED fs
                 ELSE /\ Raise("close failed", fs)
                      /\ UNCHANGED docs
       ELSE /\ pc' = "opt_save"
            /\ UNCHANGED <<hist, docs, result, fs>>
  /\ UNCHANGED <<opts, processed_files, stats, pdf_path, file_size,
                 original_size, rec, pdf_document>>

\* lines 201-212: the standard save to the temp path
OptSave ==
  /\ pc = "opt_save"
  /\ \/ \E s \in NonEmptySizes :      \* saved, temp file written
          /\ fs' = [fs EXCEPT !.temp = TRUE, !.tempSize = s]
          /\ hist' = [hist EXCEPT !.file.saveTried = TRUE, !.file.savedSize = s]
          /\ pc' = "opt_gate"
          /\ UNCHANGED result
     \/ /\ hist' = [hist EXCEPT !.file.saveTried = TRUE]   \* returned, no file
        /\ pc' = "opt_gate"
        /\ UNCHANGED <<fs, result>>
     \/ \E partial \in BOOLEAN :      \* save raised, possibly leaving a partial file
          LET f == [fs EXCEPT !.temp = partial,
                              !.tempSize = IF partial THEN HalfMB ELSE 0]
          IN /\ hist' = [hist EXCEPT !.file.saveTried = TRUE]
             /\ IF opts.repair_mode
                THEN pc' = "opt_fallback" /\ fs' = f /\ UNCHANGED result
                ELSE Raise("save failed", f)
  /\ UNCHANGED <<opts, processed_files, stats, pdf_path, file_size,
                 original_size, docs, rec, pdf_document>>

\* lines 214-233: the conservative save; when it fails the document is closed
\* and page_by_page_recovery is called with two arguments, which raises TypeError
OptFallback ==
  /\ pc = "opt_fallback"
  /\ \/ \E s \in NonEmptySizes :
          /\ fs' = [fs EXCEPT !.temp = TRUE, !.tempSize = s]
          /\ hist' = [hist EXCEPT !.file.savedSize = s]
          /\ result' = [result EXCEPT !.repaired = TRUE]
          /\ pc' = "opt_gate"
          /\ UNCHANGED docs
     \/ \E closeOk \in BOOLEAN :
          /\ docs' = IF closeOk THEN docs \ {"main"} ELSE docs
          /\ Raise(IF closeOk THEN "TypeError" ELSE "close failed", fs)
          /\ UNCHANGED hist
  /\ UNCHANGED <<opts, processed_files, stats, pdf_path, file_size,
                 original_size, rec, pdf_document>>

\* lines 235-261: close (a failure is swallowed), temp file check, size query,
\* size gate, move or delete
OptGate ==
  /\ pc = "opt_gate"
  /\ docs' = docs \ {"main"}
  /\ IF ~fs.temp
     THEN /\ Raise("Temporary optimized file was not created", fs)
          /\ hist' = [hist EXCEPT !.file.gate = "missing"]
     ELSE \/ /\ Raise("OSError", fs)                  \* getsize raised
             /\ hist' = [hist EXCEPT !.file.gate = "size_failed"]
          \/ \E ok \in BOOLEAN :
               LET new_size == fs.tempSize IN
               IF SizeReduced(new_size, original_size)
               THEN IF ok
                    THEN /\ fs' = [fs EXCEPT !.content = "opt", !.size = new_size,
                                             !.temp = FALSE, !.tempSize = 0]
                         /\ result' = [result EXCEPT !.success = TRUE,
                                                     !.new_size = new_size]
                         /\ hist' = [hist EXCEPT !.file.gate = "moved",
                                                 !.file.moved = TRUE]
                         /\ pc' = "tally"
                    ELSE /\ Raise("Failed to replace original file", fs)
                         /\ hist' = [hist EXCEPT !.file.gate = "move_failed"]
               ELSE IF ok
                    THEN /\ fs' = [fs EXCEPT !.temp = FALSE, !.tempSize = 0]
                         /\ result' = [result EXCEPT !.success = TRUE]
                         /\ hist' = [hist EXCEPT !.file.gate = "removed"]
                         /\ pc' = "tally"
                    ELSE /\ Raise("OSError", fs)
                         /\ hist' = [hist EXCEPT !.file.gate = "remove_failed"]
  /\ UNCHANGED <<opts, processed_files, stats, pdf_path, file_size,
                 original_size, rec, pdf_document>>

(* ------------------------- page_by_page_recovery ----------------------- *)
\* lines 375-380: pages are inserted in ascending order, a failing page is skipped
RECURSIVE CopyPages(_, _, _, _)
CopyPages(page_num, page_count, bad, new_doc) ==
  IF page_num >= page_count
  THEN new_doc
  ELSE CopyPages(page_num + 1, page_count, bad,
                 IF page_num \in bad THEN new_doc ELSE Append(new_doc, page_num))

\* lines 410-418 and 187-188: the function ends without a document: the finally
\* clause unlinks the NamedTemporaryFile (a failure is swallowed), None is
\* returned and optimize_pdf raises "PDF repair failed"
ReturnNone(f) ==
  /\ \E unlinked \in BOOLEAN : Raise("PDF repair failed", [f EXCEPT !.ntf = ~unlinked])
  /\ rec' = NoRec

\* lines 349-357: the direct open; a usable document is returned at once
RecDirect ==
  /\ pc = "rec_direct"
  /\ \/ /\ docs' = docs \cup {"main"}           \* is_pdf and page_count > 0
        /\ pdf_document' = fs.content
        /\ pc' = "opt_enc"
     \/ /\ pc' = "rec_temp"           \* open raised, or opened unusable and closed
        /\ UNCHANGED <<docs, pdf_document>>
  /\ UNCHANGED <<opts, processed_files, stats, pdf_path, file_size,
                 fs, original_size, result, rec, hist>>

\* lines 362-363 (and 408-416 when the creation fails): with temp_file unbound
\* the finally clause raises UnboundLocalError out of the function
RecTemp ==
  /\ pc = "rec_temp"
  /\ \E ok \in BOOLEAN :
       IF ok
       THEN /\ fs' = [fs EXCEPT !.ntf = TRUE]
            /\ pc' = "rec_copy"
            /\ UNCHANGED result
       ELSE Raise("UnboundLocalError", fs)
  /\ UNCHANGED <<opts, processed_files, stats, pdf_path, file_size,
                 original_size, docs, rec, pdf_document, hist>>

\* lines 366-393: open the source, copy its pages, save the new document
RecCopy ==
  /\ pc = "rec_copy"
  /\ \/ /\ ReturnNone(fs)                       \* the source does not open
        /\ UNCHANGED docs
     \/ \E page_count \in 0..MaxPages :
        \E bad \in SUBSET (0..(page_count - 1)) :
          LET new_doc == CopyPages(0, page_count, bad, <<>>) IN
          \/ \E s \in NonEmptySizes :           \* saved and closed
               /\ rec' = [rec EXCEPT !.copied = new_doc, !.reconSize = s]
               /\ pc' = "rec_write"
               /\ UNCHANGED <<fs, docs, result>>
          \/ /\ ReturnNone(fs)                  \* save raised, new_doc stays open
             /\ docs' = docs \cup {"new"}
  /\ UNCHANGED <<opts, processed_files, stats, pdf_path, file_size,
                 original_size, pdf_document, hist>>

\* lines 395-418: reopen the reconstruction, write it back over the original,
\* reopen the original; the finally clause unlinks the NamedTemporaryFile
RecWrite ==
  /\ pc = "rec_write"
  /\ \/ /\ ReturnNone(fs)                       \* reopening the temp file raised
        /\ UNCHANGED <<docs, pdf_document>>
     \/ /\ Len(rec.copied) = 0                  \* no page: closed, nothing written
        /\ ReturnNone(fs)
        /\ UNCHANGED <<docs, pdf_document>>
     \/ /\ Len(rec.copied) > 0                  \* copy2 raised
        /\ \E partial \in BOOLEAN : ReturnNone([fs EXCEPT !.staging = partial])
        /\ docs' = docs \cup {"repaired"}
        /\ UNCHANGED pdf_document
     \/ /\ Len(rec.copied) > 0                  \* os.replace raised
        /\ ReturnNone([fs EXCEPT !.staging = TRUE])
        /\ docs' = docs \cup {"repaired"}
        /\ UNCHANGED pdf_document
     \/ /\ Len(rec.copied) > 0                  \* written back over pdf_path
        /\ LET f == [fs EXCEPT !.content = "recon", !.size = rec.reconSize,
                               !.staging = FALSE]
           IN \/ /\ ReturnNone(f)               \* close raised
                 /\ docs' = docs \cup {"repaired"}
                 /\ UNCHANGED pdf_document
              \/ /\ ReturnNone(f)               \* the final open raised
                 /\ UNCHANGED <<docs, pdf_document>>
              \/ /\ \E unlinked \in BOOLEAN : fs' = [f EXCEPT !.ntf = ~unlinked]
                 /\ docs' = docs \cup {"main"}
                 /\ pdf_document' = "recon"
                 /\ rec' = NoRec
                 /\ pc' = "opt_enc"
                 /\ UNCHANGED result
  /\ UNCHANGED <<opts, processed_files, stats, pdf_path, file_size,
                 original_size, hist>>

(* ---------------------------- specification ---------------------------- *)
Next ==
  \/ NextEntry
  \/ CheckAccess
  \/ GetSize
  \/ Threshold
  \/ DiskSpace
  \/ Backup
  \/ OptEntry
  \/ OptOpen
  \/ RecDirect
  \/ RecTemp
  \/ RecCopy
  \/ RecWrite
  \/ OptEncrypted
  \/ OptSave
  \/ OptFallback
  \/ OptGate
  \/ Tally
  \/ Handler
  \/ Finish

Spec == Init /\ [][Next]_vars

LiveSpec == Init /\ [][Next]_vars /\ WF_vars(Next)

TypeOK ==
  /\ pc \in {"loop", "access", "getsize", "threshold", "disk", "backup",
             "opt_entry", "opt_open", "opt_enc", "opt_save", "opt_fallback",
             "opt_gate", "tally", "handler", "done",
             "rec_direct", "rec_temp", "rec_copy", "rec_write"}
  /\ fs.size \in Sizes


(* ------------------------------- claims -------------------------------- *)
Range(q) == {q[i] : i \in 1..Len(q)}

Returned == pc = "tally"

Produced == hist.file.savedSize # -1

IsTempName(p) ==
  \E f \in FileNames : Basename(p) = temp_filename(Join(Root, f))

\* C1: after every call of optimize_pdf the file at path is byte-identical to
\* the file at entry, or has been replaced by a file strictly smaller than the
\* size recorded at entry (recovery write-back included).
C1_IdenticalOrSmaller ==
  Returned =>
    \/ fs.content = hist.file.entryContent /\ fs.size = hist.file.entrySize
    \/ fs.content # hist.file.entryContent /\ fs.size < original_size

\* C2: a returned result with success has new_size <= original_size (the size
\* read at entry); new_size differs from original_size only when the temp file
\* was moved over the original; a failed result has new_size = original_size.
C2_NewSizeNeverRegresses ==
  Returned =>
    /\ result.original_size = hist.file.entrySize
    /\ result.success => result.new_size <= result.original_size
    /\ result.new_size # result.original_size => hist.file.moved
    /\ ~result.success => result.new_size = result.original_size

C2_Witness ==
  /\ Returned
  /\ result.success
  /\ hist.file.moved
  /\ result.new_size < result.original_size

\* C3 (as stated): the move happens if and only if a save stage produced a temp
\* file strictly smaller than original_size; with a temp file of size >=
\* original_size the temp file is deleted, nothing is moved and the outcome is
\* success with new_size = original_size.
C3_MoveIffSmaller ==
  Returned =>
    /\ hist.file.moved <=> (Produced /\ hist.file.savedSize < original_size)
    /\ (Produced /\ hist.file.savedSize >= original_size) =>
         /\ ~fs.temp
         /\ ~hist.file.moved
         /\ result.success
         /\ result.new_size = original_size

\* C3 (amended): the move happens only if a save stage produced a temp file
\* strictly smaller than original_size, and then it happens unless the size
\* query of the temp file or the move itself fails; with a temp file of size >=
\* original_size nothing is moved and the file at path is as it was when the
\* save ran, and the outcome is success with new_size = original_size and the
\* temp file gone exactly when the size query and the delete both succeed,
\* otherwise the outcome is a failure with new_size = original_size.
C3_MoveOnlyIfSmaller ==
  Returned =>
    /\ hist.file.moved => (Produced /\ hist.file.savedSize < original_size)
    /\ (Produced /\ hist.file.savedSize < original_size) =>
         /\ hist.file.gate \in {"moved", "move_failed", "size_failed"}
         /\ hist.file.moved <=> hist.file.gate = "moved"
    /\ (Produced /\ hist.file.savedSize >= original_size) =>
         /\ ~hist.file.moved
         /\ fs.content # "opt"
         /\ hist.file.gate \in {"removed", "remove_failed", "size_failed"}
         /\ result.new_size = original_size
         /\ result.success <=> hist.file.gate = "removed"
         /\ hist.file.gate = "removed" => ~fs.temp

C3_Witness ==
  /\ Returned
  /\ Produced
  /\ hist.file.savedSize >= original_size
  /\ hist.file.gate = "removed"
  /\ result.success

\* C4: once optimize_pdf has returned, none of the temp files of that file's
\* processing is left: not the optimizer's temp file, not the recovery's
\* NamedTemporaryFile, not the '<path>.repaired.pdf' staging copy.
C4_NoTempFileLeft ==
  Returned => (~fs.temp /\ ~fs.ntf /\ ~fs.staging)

\* C5: total_files = optimized_files + skipped_files + failed_files whenever no
\* file is in progress, in particular at the end of the run; while a file is
\* in progress it is the one counted file not classified yet.
C5_TotalIsSumOfOutcomes ==
  LET sum == stats.optimized_files + stats.skipped_files + stats.failed_files
  IN IF pc \in {"loop", "done"}
     THEN stats.total_files = sum
     ELSE stats.total_files = sum + 1

C5_Witness ==
  /\ pc = "done"
  /\ hist.escapedAt # 0
  /\ stats.total_files = 2
  /\ stats.failed_files = 1
  /\ stats.optimized_files = 1

\* C6: no error leaves optimize_pdf as an exception; every failure is returned
\* as a result with success = false and an error.
C6_NeverRaises ==
  /\ ~hist.file.escaped
  /\ (Returned /\ ~result.success) => result.error # "none"

\* C7: when the opened document reports encryption, optimize_pdf returns
\* success = false with the encrypted error, no save was attempted, no temp
\* file exists, the file at path is unchanged, and the file is counted failed.
C7_EncryptedUntouched ==
  (hist.file.encSeen /\ Returned) =>
    /\ ~result.success
    /\ result.error = "PDF is encrypted"
    /\ ~hist.file.saveTried
    /\ ~fs.temp /\ ~fs.ntf /\ ~fs.staging
    /\ fs.content = hist.file.entryContent /\ fs.size = hist.file.entrySize
    /\ CountResult(stats, result).failed_files = stats.failed_files + 1

\* C8: the walk terminates and returns the statistics with every accepted path
\* classified; every accepted path, and every exception raised out of
\* optimize_pdf, is followed by the walk going on to the next entry.
C8_WalkIsResilient ==
  /\ <>(/\ pc = "done"
        /\ stats.total_files = Cardinality(processed_files)
        /\ stats.total_files = stats.optimized_files + stats.skipped_files
                                 + stats.failed_files)
  /\ [](pc \in {"access", "handler"} => <>(pc = "loop"))

C8_Witness ==
  /\ pc = "done"
  /\ hist.escapedAt = 1
  /\ Len(hist.invoked) = 2
  /\ stats.total_files = 2
  /\ stats.failed_files >= 1

\* C9: a file named by optimize_pdf's temp_filename scheme is never accepted
\* by the filter of optimize_pdfs: it is never counted and never optimized.
C9_TempFileNeverInput ==
  /\ \A p \in processed_files : ~IsTempName(p)
  /\ \A p \in Range(hist.invoked) : ~IsTempName(p)

\* C10: a step that skips a file by a policy filter (size threshold, free
\* space) increments skipped_files only, adds the file's size to
\* optimized_size_bytes, leaves original_size_bytes with the size added once,
\* never invoked optimize_pdf, made no backup and no temp file, and left the
\* file as it was.
C10_PolicySkipFrame ==
  [][(pc \in {"threshold", "disk"} /\ pc' = "loop") =>
       /\ stats' = [stats EXCEPT !.skipped_files = @ + 1,
                                 !.optimized_size_bytes = @ + fs.size]
       /\ stats'.original_size_bytes
            = hist.file.startStats.original_size_bytes + fs.size
       /\ stats'.optimized_size_bytes
            = hist.file.startStats.optimized_size_bytes + fs.size
       /\ hist'.invoked = hist.invoked
       /\ pdf_path \notin Range(hist.invoked)
       /\ ~hist.file.entered /\ ~hist.file.backupTried
       /\ fs = FreshFs(hist.file.startSize)
       /\ docs = {}]_vars

C10_Witness ==
  /\ pc = "loop"
  /\ stats.total_files = 1
  /\ stats.skipped_files = 1
  /\ stats.optimized_size_bytes > 0
  /\ stats.optimized_size_bytes = stats.original_size_bytes

RepairLocations ==
  {"rec_direct", "rec_temp", "rec_copy", "rec_write", "opt_fallback"}

\* C11: with repair_mode false optimize_pdf is never inside
\* page_by_page_recovery nor at the fallback save; a failed direct open or a
\* failed standard save returns at once with success = false and the error
\* recorded, the file at path as it was at entry, and the result is counted
\* as failed by the Directory Optimizer.
C11_NoRepairIsTerminal ==
  /\ [](~opts.repair_mode => pc \notin RepairLocations)
  /\ [][(/\ ~opts.repair_mode
          /\ pc \in {"opt_open", "opt_save"}
          /\ pc' \notin {"opt_enc", "opt_gate"}) =>
           /\ pc' = "tally"
           /\ ~result'.success
           /\ result'.error = (IF pc = "opt_open" THEN "open failed"
                                                  ELSE "save failed")
           /\ fs'.content = hist.file.entryContent
           /\ fs'.size = hist.file.entrySize
           /\ fs'.content = "orig" /\ fs'.size = hist.file.startSize
           /\ ~fs'.ntf /\ ~fs'.staging
           /\ stats' = stats]_vars
  /\ [][(/\ ~opts.repair_mode
          /\ pc = "tally"
          /\ result.error \in {"open failed", "save failed"}) =>
           /\ stats'.failed_files = stats.failed_files + 1
           /\ stats'.optimized_files = stats.optimized_files
           /\ stats'.skipped_files = stats.skipped_files]_vars

C11_Witness ==
  /\ Returned
  /\ ~opts.repair_mode
  /\ hist.file.saveTried
  /\ result.error = "save failed"
  /\ ~result.success
  /\ fs.content = "orig"

\* C12: in repair mode the fallback save is attempted only after the standard
\* save failed, and a failed fallback save is followed by the page-by-page
\* reconstruction: the call is inside page_by_page_recovery next, and it
\* returns with a failure only after that reconstruction ran and failed.
C12_SaveStagesInOrder ==
  /\ [](pc = "opt_fallback" =>
          (opts.repair_mode /\ hist.file.saveTried /\ ~Produced))
  /\ [][(pc = "opt_fallback" /\ pc' # "opt_gate") =>
           pc' \in RepairLocations \ {"opt_fallback"}]_vars

InsideOptimize ==
  pc \in {"opt_open", "opt_enc", "opt_save", "opt_fallback", "opt_gate",
          "rec_direct", "rec_temp", "rec_copy", "rec_write", "tally", "handler"}

Occurrences(q, x) == Cardinality({i \in 1..Len(q) : q[i] = x})

\* C13: a step that leaves the free-space check and ends the file is a skip
\* that some free-space reading justifies; every other step out of the
\* free-space check, and every step out of the backup, failed or not, leaves
\* the statistics as they are and goes on towards optimize_pdf, which is then
\* invoked for the file exactly once.
C13_WarningsOnly ==
  /\ [][pc = "disk" =>
           IF pc' = "loop"
           THEN /\ \E free \in FreeSpaces : NotEnoughSpace(free, file_size)
                /\ stats' = CountSkipped(stats, file_size)
           ELSE pc' = "backup" /\ stats' = stats]_vars
  /\ [][pc = "backup" => (pc' = "opt_entry" /\ stats' = stats)]_vars
  /\ [][pc = "opt_entry" =>
           /\ pdf_path \notin Range(hist.invoked)
           /\ hist'.invoked = Append(hist.invoked, pdf_path)
           /\ stats' = stats]_vars
  /\ [](InsideOptimize => Occurrences(hist.invoked, pdf_path) = 1)

\* no free-space reading lets this file pass and its backup copy failed, and
\* yet optimize_pdf was invoked for it and has returned
C13_Witness ==
  /\ Returned
  /\ \A free \in FreeSpaces : NotEnoughSpace(free, file_size)
  /\ hist.file.backupTried /\ fs.backup = "none"
  /\ Occurrences(hist.invoked, pdf_path) = 1
  /\ stats.skipped_files = 0 /\ stats.failed_files = 0

\* C14: a backup exists only when requested and holds the bytes the file had
\* before the run; the copy is attempted with the file still as the walk found
\* it, before optimize_pdf is entered, and only for a file that is not below
\* the size threshold and that no filter has skipped or failed; the file at
\* path is modified only after the requested backup was attempted.
C14_BackupBeforeMutation ==
  /\ [](fs.backup # "none" => (opts.backup /\ fs.backup = "orig"))
  /\ []((fs.content # "orig" /\ opts.backup) => hist.file.backupTried)
  /\ [][(pc = "backup" /\ opts.backup) =>
           /\ hist'.file.backupTried
           /\ fs'.backup \in {"none", fs.content}
           /\ fs = FreshFs(hist.file.startSize)
           /\ file_size = hist.file.startSize
           /\ ~hist.file.entered /\ ~hist.file.escaped
           /\ pdf_path \notin Range(hist.invoked)
           /\ ~(opts.size_threshold_mb # 0
                 /\ file_size < opts.size_threshold_mb * MB)
           /\ stats.skipped_files = hist.file.startStats.skipped_files
           /\ stats.failed_files = hist.file.startStats.failed_files]_vars
  /\ [][(pc # "backup" /\ pc' # "loop") => fs'.backup = fs.backup]_vars

C14_Witness ==
  /\ Returned
  /\ fs.backup = "orig"
  /\ fs.content = "opt"
  /\ hist.file.moved

\* C15: when optimize_pdf returns, no document handle opened during the call
\* is still open, on any exit path, and a failed close has not replaced an
\* outcome that was already determined (the encrypted error).
C15_HandlesClosed ==
  Returned =>
    /\ docs = {}
    /\ hist.file.encSeen => result.error = "PDF is encrypted"

InRecovery == pc \in {"rec_direct", "rec_temp", "rec_copy", "rec_write"}

Ascending(q) == \A i, j \in 1..Len(q) : i < j => q[i] < q[j]

\* C16: the pages of the reconstruction are in ascending index order; a step
\* of page_by_page_recovery changes the file at path only when the
\* reconstruction has at least one page; when the reconstruction cannot be
\* built (no temp file, source does not open, save fails) or has no page, the
\* function returns None (optimize_pdf then reports "PDF repair failed") and
\* the file at path is as it was.
C16_RecoveryFrame ==
  /\ [](pc = "rec_write" =>
          /\ Ascending(rec.copied)
          /\ \A i \in 1..Len(rec.copied) : rec.copied[i] \in 0..(MaxPages - 1))
  /\ [][(InRecovery /\ (fs'.content # fs.content \/ fs'.size # fs.size)) =>
           /\ pc = "rec_write"
           /\ Len(rec.copied) > 0
           /\ fs'.content = "recon" /\ fs'.size = rec.reconSize]_vars
  /\ [][(\/ (pc = "rec_temp" /\ pc' # "rec_copy")
          \/ (pc = "rec_copy" /\ pc' # "rec_write")
          \/ (pc = "rec_write" /\ Len(rec.copied) = 0)) =>
           /\ pc' = "tally"
           /\ result'.error = "PDF repair failed"
           /\ fs'.content = fs.content /\ fs'.size = fs.size
           /\ fs'.content = hist.file.entryContent]_vars

\* C17: no call of page_by_page_recovery ends with an exception: whenever
\* optimize_pdf returns after the recovery did not deliver a document, the
\* recovery returned None, which optimize_pdf reports as "PDF repair failed".
C17_RecoveryNeverRaises ==
  [][(InRecovery /\ pc' = "tally") => result'.error = "PDF repair failed"]_vars

\* C18: the repaired flag of the result becomes true only in a step in which
\* a repair succeeds (page_by_page_recovery hands a document back, or the
\* fallback save succeeds); a call that returns because the recovery failed
\* has success = false and repaired = false.
C18_RepairedOnlyAfterRepair ==
  /\ [][(result'.repaired /\ ~result.repaired) =>
           \/ (InRecovery /\ pc' = "opt_enc")
           \/ (pc = "opt_fallback" /\ pc' = "opt_gate")]_vars
  /\ []((Returned /\ result.error = "PDF repair failed") =>
          (~result.success /\ ~result.repaired))

\* C19: the step that ends a file's processing leaves original_size_bytes
\* grown by the size the walk read for the file (nothing when it read none)
\* and optimized_size_bytes grown by exactly one amount: new_size for a
\* success, the same size for a skip, a failure or an escaped exception; that
\* amount is never the greater one, and at the end of the run
\* optimized_size_bytes <= original_size_bytes.
C19_BytesBalanced ==
  /\ [][(pc # "loop" /\ pc' = "loop") =>
           LET addedOriginal == stats'.original_size_bytes
                                  - hist.file.startStats.original_size_bytes
               addedOptimized == stats'.optimized_size_bytes
                                   - hist.file.startStats.optimized_size_bytes
           IN /\ addedOriginal = file_size
              /\ addedOptimized = (IF pc = "tally" /\ result.success
                                   THEN result.new_size ELSE file_size)
              /\ addedOptimized <= addedOriginal]_vars
  /\ [](pc = "done" => stats.optimized_size_bytes <= stats.original_size_bytes)

\* C20: total_files is the number of distinct accepted paths and optimize_pdf
\* is invoked at most once per path, only for accepted paths; total_files
\* changes only by one, for a path that was not in processed_files; a step
\* that lists an already processed path again changes no counter, invokes
\* nothing and starts no processing.
C20_EachPathOnce ==
  /\ [](/\ stats.total_files = Cardinality(processed_files)
         /\ \A p \in processed_files : Occurrences(hist.invoked, p) <= 1
         /\ Range(hist.invoked) \subseteq processed_files)
  /\ [][stats'.total_files # stats.total_files =>
           /\ stats'.total_files = stats.total_files + 1
           /\ pdf_path' \notin processed_files
           /\ processed_files' = processed_files \cup {pdf_path'}]_vars
  /\ [][(hist'.file.relisted /\ ~hist.file.relisted) =>
           /\ stats' = stats
           /\ processed_files' = processed_files
           /\ hist'.invoked = hist.invoked
           /\ pc' = pc]_vars

\* both paths were processed, in the order leftover first, and a processed
\* path was listed again afterwards
C20_Witness ==
  /\ pc = "loop"
  /\ hist.file.relisted
  /\ Cardinality(processed_files) = 2
  /\ stats.total_files = 2
  /\ hist.invoked = <<Join(Root, FileLeftover), Join(Root, FileA)>>

\* C21: repaired_files <= optimized_files in every state; repaired_files
\* changes only by one, in the step that tallies a returned result with
\* success and repaired both true, and that same step increments
\* optimized_files.
C21_RepairedWithinOptimized ==
  /\ [](stats.repaired_files <= stats.optimized_files)
  /\ [][stats'.repaired_files # stats.repaired_files =>
           /\ pc = "tally"
           /\ result.success /\ result.repaired
           /\ stats'.repaired_files = stats.repaired_files + 1
           /\ stats'.optimized_files = stats.optimized_files + 1]_vars
  /\ [][(pc = "tally" /\ ~(result.success /\ result.repaired)) =>
           stats'.repaired_files = stats.repaired_files]_vars

\* one file was optimized after a repair, another optimized without one
C21_Witness ==
  /\ pc = "loop"
  /\ stats.repaired_files = 1
  /\ stats.optimized_files = 2

====
